---- MODULE Spec2Model ----
(***************************************************************************)
(* A model of independency/container.py: the ContainerBuilder (register,   *)
(* build with its graph validator), the Container (resolve with the        *)
(* singleton store and the per-call cache, from one thread or two, and     *)
(* from inside a factory) and the TestContainer (create_test_container,    *)
(* with_overridden).                                                       *)
(*                                                                         *)
(* Python dicts keep insertion order, so a dict whose iteration order is   *)
(* observable (the registry, a signature, kwargs, the result of get_deps)  *)
(* is a sequence of entries with distinct keys; a dict that is only looked *)
(* up (localns, the singleton store, the cache) is a function.             *)
(***************************************************************************)
EXTENDS Naturals, Sequences, FiniteSets, TLC

\* ------------------------------------------------------------------ bounds
\* Registrations a builder may hold.
MaxRegs == 3
\* Top-level resolve() calls on a container.
MaxCalls == 2
\* Objects the factories may construct.
MaxInst == 5
\* Containers built and derived.
MaxContainers == 3
\* Frames of nested calls a thread may hold before Python raises RecursionError.
MaxDepth == 6

\* ------------------------------------------------------- type identities
\* ObjType = Union[str, Type]: a type identity is a class or a string.
\* Two classes may carry the same __name__ (A1 and A2 are both named "A"), and
\* a string may spell the name of a class ("sA" is the string 'A').
Container == "Container"
Classes == {"A1", "A2", "B", "C", Container}
Strings == {"sA"}
\* The string 'Container', which spells the name of the container type.
ContainerName == "sContainer"
ObjTypes == Classes \cup Strings

\* cls.__name__ of a class; the text of a string.
TypeName(cls) ==
    CASE cls = "A1" -> "A"
      [] cls = "A2" -> "A"
      [] cls = "sA" -> "A"
      [] cls = "sContainer" -> "Container"
      [] OTHER -> cls

\* A class that still carries unbound type parameters (cls.__parameters__).
Generic == "G"

Scopes == {"transient", "singleton", "cached"}

\* A dict given as a sequence of entries [key, ...]: its keys, and a lookup.
Keys(d) == {d[i].key : i \in 1..Len(d)}
Lookup(d, k) == d[CHOOSE i \in 1..Len(d) : d[i].key = k]

\* dict[k] = v on an insertion-ordered dict: replace in place, or append.
DictSet(d, e) ==
    IF e.key \in Keys(d)
    THEN [i \in 1..Len(d) |-> IF d[i].key = e.key THEN e ELSE d[i]]
    ELSE Append(d, e)

\* dict[k] = v on a dict that is only looked up.
FnSet(f, k, v) == [x \in DOMAIN f \cup {k} |-> IF x = k THEN v ELSE f[x]]

Empty == [x \in {} |-> x]

\* ------------------------------------------------------------- factories
\* A factory is a callable with declared parameters, each annotated with a
\* class, or an object that is not callable.  A Registration holds
\* cls, factory, scope and kwargs (a constant or a Dependency per name).
\* `copy` counts the deep copies between the constant given to register()
\* and this one.
Const(name) == [key |-> name, tag |-> "const", cls |-> "k", copy |-> 0]
Dependency(name, cls) == [key |-> name, tag |-> "dep", cls |-> cls, copy |-> 0]

\* A factory constructs a new object when called (self = 0), except the one
\* build() installs for the container type, which returns container `self`.
None == "None"

\* A factory may also call resolve(inner) on the container it was handed,
\* while it runs.
Factory(params) == [callable |-> TRUE, params |-> params, self |-> 0, inner |-> None]
SelfFactory(c) == [callable |-> TRUE, params |-> <<>>, self |-> c, inner |-> None]
NonCallable == [callable |-> FALSE, params |-> <<>>, self |-> 0, inner |-> None]
Reentrant(params, target) ==
    [callable |-> TRUE, params |-> params, self |-> 0, inner |-> target]
Param(name, cls) == [key |-> name, cls |-> cls]

Registration(cls, factory, scope, kwargs) ==
    [key |-> cls, cls |-> cls, factory |-> factory, scope |-> scope, kwargs |-> kwargs]

\* get_signature: name -> annotation of the declared parameters.
get_signature(f) == f.params

\* get_arg_names: the names of the declared parameters.
get_arg_names(f) == [i \in 1..Len(f.params) |-> f.params[i].key]

\* get_from_localns: the canonical identity of a type reference, looked up
\* under cls.__name__ for a class and under the string itself for a string:
\* localns.get(name, cls).
get_from_localns(cls, localns) ==
    IF TypeName(cls) \in DOMAIN localns THEN localns[TypeName(cls)] ELSE cls

\* _update_localns: localns[cls.__name__] = cls, or localns[cls] = cls.
update_localns(cls, localns) == FnSet(localns, TypeName(cls), cls)

get_deps_unmarked(reg) ==
    LET free(p) == p.key \notin Keys(reg.kwargs)
    IN  SelectSeq(get_signature(reg.factory), free)

\* get_deps: the declared parameters not named in kwargs, then the targets of
\* the Dependency markers of kwargs, in this order.
get_deps(reg) ==
    LET free(p) == p.key \notin Keys(reg.kwargs)
        marker(k) == k.tag = "dep"
        deps == SelectSeq(reg.kwargs, marker)
    IN  SelectSeq(get_signature(reg.factory), free)
        \o [i \in 1..Len(deps) |-> Param(deps[i].key, deps[i].cls)]

\* _resolve_constants: the kwargs that are not Dependency markers.
resolve_constants(kwargs) ==
    LET const(k) == k.tag = "const"
    IN  SelectSeq(kwargs, const)

\* ------------------------------------------------------------------ state
VARIABLES
    registry,     \* ContainerBuilder._registry
    localns,      \* ContainerBuilder._localns
    containers,   \* the containers built so far: _registry, _localns, _resolved, _cache
    heap,         \* the objects the factories have constructed
    stack,        \* per thread, the frames of the resolve() call in progress
    ncalls,       \* top-level resolve() calls started
    last          \* how the latest public call ended

vars == <<registry, localns, containers, heap, stack, ncalls, last>>

\* The threads that call resolve(); Main is the only one of a
\* single-threaded program.
Threads == {1, 2}
Main == 1

\* How a public call ended: the value it returned, or the exception it raised
\* (exc), with what the message names (cls, parent).
Returned(op, c, arg, value) ==
    [op |-> op, c |-> c, arg |-> arg, exc |-> None, kind |-> None,
     cls |-> None, parent |-> None, value |-> value]
Raised(op, c, arg, exc, kind, cls, parent) ==
    [op |-> op, c |-> c, arg |-> arg, exc |-> exc, kind |-> kind,
     cls |-> cls, parent |-> parent, value |-> None]

NoError == [kind |-> None, exc |-> None, cls |-> None, parent |-> None]
Error(exc, kind, cls, parent) == [kind |-> kind, exc |-> exc, cls |-> cls, parent |-> parent]

\* ------------------------------------------------------- ContainerBuilder
validate_registration_no_kwargs(cls, factory, kwargs) ==
    IF cls = Generic
    THEN Error("ValueError", "generic", cls, None)
    ELSE IF ~factory.callable
    THEN Error("ContainerError", "not_callable", cls, None)
    ELSE NoError

\* _validate_registration: the first check that fails, if any.
validate_registration(cls, factory, kwargs) ==
    IF cls = Generic
    THEN Error("ValueError", "generic", cls, None)
    ELSE IF ~factory.callable
    THEN Error("ContainerError", "not_callable", cls, None)
    ELSE IF \E i \in 1..Len(kwargs) :
                \A j \in 1..Len(get_arg_names(factory)) :
                    get_arg_names(factory)[j] # kwargs[i].key
    THEN Error("ValueError", "no_argument", cls, None)
    ELSE NoError

\* ContainerBuilder.register: what it raises, if anything.
register_error(cls, factory, kwargs) ==
    IF cls \in Keys(registry)
    THEN Error("ContainerError", "duplicate", cls, None)
    ELSE validate_registration(cls, factory, kwargs)

Register(cls, factory, scope, kwargs) ==
    LET err == register_error(cls, factory, kwargs)
    IN  /\ err.kind = None => Len(registry) < MaxRegs
        /\ IF err.kind = None
           THEN /\ registry' = DictSet(registry, Registration(cls, factory, scope, kwargs))
                /\ localns' = update_localns(cls, localns)
                /\ last' = Returned("register", 0, cls, None)
           ELSE /\ UNCHANGED <<registry, localns>>
                /\ last' = Raised("register", 0, cls, err.exc, err.kind, err.cls, err.parent)
        /\ UNCHANGED <<containers, heap, stack, ncalls>>

\* The exceptions of _check_resolution.
CycleError(cls) == Error("ContainerError", "cycle", cls, None)
MissingErrorSwapped(cls, parent) == Error("ContainerError", "missing", parent, cls)
MissingError(cls, parent) == Error("ContainerError", "missing", cls, parent)

\* resolving.add(cls), and resolving.remove(cls); resolved.add(cls).
Visit(st, cls) == [st EXCEPT !.resolving = @ \cup {cls}]
LeaveStaysResolving(st, cls) == st
LeaveForgets(st, cls) == [st EXCEPT !.resolving = @ \ {cls}]
Leave(st, cls) == [st EXCEPT !.resolving = @ \ {cls}, !.resolved = @ \cup {cls}]

\* The two sets as a call of _check_resolution finds them ("call") and as it
\* leaves them when it returns from its last line ("done"), with what the
\* call was given (raw, parent) and the canonical identity cls.
Log(st, ev, raw, cls, parent) ==
    [st EXCEPT !.log = Append(@, [ev |-> ev, raw |-> raw, cls |-> cls, parent |-> parent,
                                  resolved |-> st.resolved, resolving |-> st.resolving])]

\* The state _check_resolvable starts from.
Unchecked == [resolved |-> {}, resolving |-> {}, err |-> NoError, log |-> <<>>]

\* _check_resolution: the depth-first walk from cls.  st carries the two sets
\* and the exception raised, if any; once one is raised nothing more is done.
RECURSIVE check_resolution(_, _, _, _, _)
RECURSIVE check_deps(_, _, _, _, _)

check_resolution(cls0, st0, reg, lns, parent) ==
    LET cls == get_from_localns(cls0, lns)
        st == Log(st0, "call", cls0, cls, parent)
    IN  IF st0.err.kind # None THEN st0
        ELSE IF cls \in st.resolved THEN st
        ELSE IF cls \in st.resolving
        THEN [st EXCEPT !.err = CycleError(cls)]
        ELSE IF cls \notin Keys(reg)
        THEN [Visit(st, cls) EXCEPT !.err = MissingError(cls, parent)]
        ELSE LET st2 == check_deps(get_deps(Lookup(reg, cls)), Visit(st, cls), reg, lns, cls)
             IN  IF st2.err.kind # None THEN st2
                 ELSE Log(Leave(st2, cls), "done", cls0, cls, parent)

\* for value in deps_to_resolve.values(): self._check_resolution(value, ...)
check_deps(deps, st, reg, lns, parent) ==
    IF deps = <<>> \/ st.err.kind # None THEN st
    ELSE check_deps(Tail(deps), check_resolution(Head(deps).cls, st, reg, lns, parent),
                    reg, lns, parent)

\* _check_resolvable: every key of the registry in turn, each with a fresh
\* `resolving` and the shared `resolved`.
RECURSIVE check_from(_, _, _, _)
check_from(i, st, reg, lns) ==
    IF i > Len(reg) \/ st.err.kind # None THEN st
    ELSE check_from(i + 1,
                    check_resolution(reg[i].key, [st EXCEPT !.resolving = {}], reg, lns, None),
                    reg, lns)

check_resolvable_first(reg, lns) ==
    check_resolution(reg[1].key, Unchecked, reg, lns, None)
check_resolvable(reg, lns) ==
    check_from(1, Unchecked, reg, lns)

\* The registry and the symbol table build() hands to container number c.
built_registry(c) ==
    DictSet(registry, Registration(Container, SelfFactory(c), "singleton", <<>>))
built_localns == update_localns(Container, localns)

\* Container.__init__.  `test` tells a TestContainer, `base` the container it
\* was derived from (0 for one a builder built).
NewContainer(reg, lns) ==
    [registry |-> reg, localns |-> lns, resolved |-> Empty, cache |-> Empty,
     test |-> FALSE, base |-> 0]

\* ContainerBuilder.build
Build ==
    LET c == Len(containers) + 1
        reg == built_registry(c)
        lns == built_localns
        err == check_resolvable(reg, lns).err
    IN  /\ IF err.kind = None
           THEN /\ containers' = Append(containers, NewContainer(reg, lns))
                /\ last' = Returned("build", c, None, None)
           ELSE /\ UNCHANGED containers
                /\ last' = Raised("build", 0, None, err.exc, err.kind, err.cls, err.parent)
        /\ UNCHANGED <<registry, localns, heap, stack, ncalls>>

Init ==
    /\ registry = <<>>
    /\ localns = Empty
    /\ containers = <<>>
    /\ heap = <<>>
    /\ stack = [t \in Threads |-> <<>>]
    /\ ncalls = 0
    /\ last = Returned("init", 0, None, None)

\* -------------------------------------------------------------- Container
\* What a parameter of a factory receives: a constant of kwargs, an object a
\* factory constructed (its index in heap), or a container.
ConstValue == [tag |-> "const", id |-> 0]
ConstOf(k) == [tag |-> "const", id |-> k.copy]
Instance(n) == [tag |-> "inst", id |-> n]
ContainerValue(c) == [tag |-> "container", id |-> c]
Arg(name, value) == [key |-> name, value |-> value]

\* A frame of resolve(cls), waiting for resolve_impl(cls) to return.
\* `call` numbers the top-level call the frame belongs to.
ResolveFrame(c, cls, call) ==
    [kind |-> "resolve", c |-> c, cls |-> cls, call |-> call,
     todo |-> <<>>, args |-> <<>>, inner |-> None]

\* A frame of resolve_impl past its lookups: `args` as assembled so far and
\* the dependencies still to resolve.
\* `inner` is the resolve() the factory has still to make, if any.
ImplFrame(c, cls, call) ==
    LET current == Lookup(containers[c].registry, cls)
    IN  [kind |-> "impl", c |-> c, cls |-> cls, call |-> call,
         todo |-> get_deps(current),
         args |-> [i \in 1..Len(resolve_constants(current.kwargs)) |->
                      Arg(resolve_constants(current.kwargs)[i].key,
                          ConstOf(resolve_constants(current.kwargs)[i]))],
         inner |-> current.factory.inner]

\* ResolutionCache.clear
clear_nothing(cont) == cont
clear(cont) == [cont EXCEPT !.cache = Empty]

EnterSkipsStore(c, cls0) ==
    LET cls == get_from_localns(cls0, containers[c].localns)
    IN  IF cls \in DOMAIN containers[c].cache
        THEN [do |-> "return", value |-> containers[c].cache[cls], cls |-> cls]
        ELSE IF cls \notin Keys(containers[c].registry)
        THEN [do |-> "raise", value |-> ConstValue, cls |-> cls]
        ELSE [do |-> "call", value |-> ConstValue, cls |-> cls]

\* resolve_impl up to the registry lookup: the instance of the singleton
\* store, else the instance of the cache, else a missing-dependency error,
\* else the frame that goes on to resolve the dependencies.
Enter(c, cls0) ==
    LET cls == get_from_localns(cls0, containers[c].localns)
    IN  IF cls \in DOMAIN containers[c].resolved
        THEN [do |-> "return", value |-> containers[c].resolved[cls], cls |-> cls]
        ELSE IF cls \in DOMAIN containers[c].cache
        THEN [do |-> "return", value |-> containers[c].cache[cls], cls |-> cls]
        ELSE IF cls \notin Keys(containers[c].registry)
        THEN [do |-> "raise", value |-> ConstValue, cls |-> cls]
        ELSE [do |-> "call", value |-> ConstValue, cls |-> cls]

Top(s) == s[Len(s)]
Pop(s) == SubSeq(s, 1, Len(s) - 1)

\* args[key] = value in the frame on top, whose first pending dependency it is.
Deliver(s, value) ==
    [s EXCEPT ![Len(s)] =
        [@ EXCEPT !.args = Append(@, Arg(Head(s[Len(s)].todo).key, value)),
                  !.todo = Tail(@)]]

\* Container.resolve: the call, up to the point where resolve_impl either
\* returns at once, raises, or starts on the dependencies.  The cache is
\* cleared when resolve_impl has returned, and not when it raised.
Resolve(t, c, cls) ==
    LET e == Enter(c, cls)
    IN  /\ stack[t] = <<>>
        /\ c \in 1..Len(containers)
        /\ ncalls < MaxCalls
        /\ ncalls' = ncalls + 1
        /\ CASE e.do = "return" ->
                  /\ containers' = [containers EXCEPT ![c] = clear(@)]
                  /\ last' = Returned("resolve", c, cls, e.value)
                  /\ UNCHANGED stack
             [] e.do = "raise" ->
                  /\ last' = Raised("resolve", c, cls, "ContainerError", "missing", e.cls, None)
                  /\ UNCHANGED <<containers, stack>>
             [] e.do = "call" ->
                  /\ stack' = [stack EXCEPT ![t] = <<ResolveFrame(c, cls, ncalls + 1),
                                                      ImplFrame(c, e.cls, ncalls + 1)>>]
                  /\ UNCHANGED <<containers, last>>
        /\ UNCHANGED <<registry, localns, heap>>

\* The interpreter ends a recursion that has grown too deep.
RecursionError(c, arg, cls) ==
    Raised("resolve", c, arg, "RecursionError", "recursion", cls, None)

\* resolve_impl: args[key] = self.resolve_impl(d) for the next dependency, up
\* to the same point of the nested resolve_impl.  An exception leaves through
\* every frame of the call: nothing on the way catches it.
ResolveDep(t) ==
    /\ stack[t] # <<>>
    /\ Top(stack[t]).kind = "impl"
    /\ Top(stack[t]).todo # <<>>
    /\ LET f == Top(stack[t])
           e == Enter(f.c, Head(f.todo).cls)
       IN  CASE e.do = "return" ->
                  /\ stack' = [stack EXCEPT ![t] = Deliver(@, e.value)]
                  /\ UNCHANGED last
             [] e.do = "raise" ->
                  /\ stack' = [stack EXCEPT ![t] = <<>>]
                  /\ last' = Raised("resolve", f.c, stack[t][1].cls,
                                    "ContainerError", "missing", e.cls, None)
             [] e.do = "call" /\ Len(stack[t]) < MaxDepth ->
                  /\ stack' = [stack EXCEPT ![t] = Append(@, ImplFrame(f.c, e.cls, f.call))]
                  /\ UNCHANGED last
             [] e.do = "call" /\ Len(stack[t]) >= MaxDepth ->
                  /\ stack' = [stack EXCEPT ![t] = <<>>]
                  /\ last' = RecursionError(f.c, stack[t][1].cls, e.cls)
    /\ UNCHANGED <<registry, localns, containers, heap, ncalls>>

\* The resolve() a factory made has returned to it.
Answer(s) == [s EXCEPT ![Len(s)].inner = None]

\* The singleton store and the cache once `value` is the result for `current`.
Store(cont, current, cls, value) ==
    [cont EXCEPT
        !.resolved = IF current.scope = "singleton" THEN FnSet(@, current.cls, value) ELSE @,
        !.cache = IF current.scope = "cached" THEN FnSet(@, cls, value) ELSE @]

\* resolve_impl from the call of the factory to its return, and the return of
\* resolve() when this was the requested type.
FactoryReturns(t) ==
    /\ stack[t] # <<>>
    /\ Top(stack[t]).kind = "impl"
    /\ Top(stack[t]).todo = <<>>
    /\ Top(stack[t]).inner = None
    /\ LET f == Top(stack[t])
           current == Lookup(containers[f.c].registry, f.cls)
           new == current.factory.self = 0
           value == IF new THEN Instance(Len(heap) + 1) ELSE ContainerValue(current.factory.self)
           stored == Store(containers[f.c], current, f.cls, value)
           below == Pop(stack[t])
       IN  /\ new => Len(heap) < MaxInst
           /\ heap' = IF new
                      THEN Append(heap, [by |-> current.cls, c |-> f.c, call |-> f.call,
                                         args |-> f.args])
                      ELSE heap
           /\ IF Top(below).kind = "impl"
              THEN /\ stack' = [stack EXCEPT ![t] = Deliver(below, value)]
                   /\ containers' = [containers EXCEPT ![f.c] = stored]
                   /\ UNCHANGED last
              ELSE IF Len(below) = 1
              THEN /\ stack' = [stack EXCEPT ![t] = <<>>]
                   /\ containers' = [containers EXCEPT ![f.c] = clear(stored)]
                   /\ last' = Returned("resolve", f.c, Top(below).cls, value)
              ELSE /\ stack' = [stack EXCEPT ![t] = Answer(Pop(below))]
                   /\ containers' = [containers EXCEPT ![f.c] = clear(stored)]
                   /\ UNCHANGED last
    /\ UNCHANGED <<registry, localns, ncalls>>

\* The container a factory was handed for one of its parameters.
HandedContainer(f) ==
    f.args[CHOOSE i \in 1..Len(f.args) : f.args[i].value.tag = "container"].value.id

\* The factory, while it runs, calls resolve(inner) on the container it was
\* handed: Container.resolve again, up to the same point as Resolve, inside
\* the call in progress.
FactoryCalls(t) ==
    /\ stack[t] # <<>>
    /\ Top(stack[t]).kind = "impl"
    /\ Top(stack[t]).todo = <<>>
    /\ Top(stack[t]).inner # None
    /\ LET f == Top(stack[t])
           c == HandedContainer(f)
           e == Enter(c, f.inner)
       IN  CASE e.do = "return" ->
                  /\ containers' = [containers EXCEPT ![c] = clear(@)]
                  /\ stack' = [stack EXCEPT ![t] = Answer(@)]
                  /\ UNCHANGED last
             [] e.do = "raise" ->
                  /\ stack' = [stack EXCEPT ![t] = <<>>]
                  /\ last' = Raised("resolve", stack[t][1].c, stack[t][1].cls,
                                    "ContainerError", "missing", e.cls, None)
                  /\ UNCHANGED containers
             [] e.do = "call" /\ Len(stack[t]) + 1 < MaxDepth ->
                  /\ stack' = [stack EXCEPT ![t] =
                                   @ \o <<ResolveFrame(c, f.inner, f.call),
                                          ImplFrame(c, e.cls, f.call)>>]
                  /\ UNCHANGED <<containers, last>>
             [] e.do = "call" /\ Len(stack[t]) + 1 >= MaxDepth ->
                  /\ stack' = [stack EXCEPT ![t] = <<>>]
                  /\ last' = RecursionError(stack[t][1].c, stack[t][1].cls, e.cls)
                  /\ UNCHANGED containers
    /\ UNCHANGED <<registry, localns, heap, ncalls>>

\* The factory raises: the exception leaves resolve_impl and resolve().
FactoryRaises(t) ==
    /\ stack[t] # <<>>
    /\ Top(stack[t]).kind = "impl"
    /\ Top(stack[t]).todo = <<>>
    /\ Lookup(containers[Top(stack[t]).c].registry, Top(stack[t]).cls).factory.self = 0
    /\ stack' = [stack EXCEPT ![t] = <<>>]
    /\ last' = Raised("resolve", Top(stack[t]).c, stack[t][1].cls,
                      "Exception", "factory", Top(stack[t]).cls, None)
    /\ UNCHANGED <<registry, localns, containers, heap, ncalls>>

\* ---------------------------------------------------------- TestContainer
\* copy.deepcopy of a registry: classes, strings and functions are copied as
\* themselves, a Registration, its kwargs and the constants in them as new
\* equal objects.
deepcopy(reg) ==
    [i \in 1..Len(reg) |->
        [reg[i] EXCEPT !.kwargs =
            [j \in 1..Len(reg[i].kwargs) |->
                IF reg[i].kwargs[j].tag = "const"
                THEN [reg[i].kwargs[j] EXCEPT !.copy = @ + 1]
                ELSE reg[i].kwargs[j]]]]

TestContainer(reg, lns, base) ==
    [NewContainer(reg, lns) EXCEPT !.test = TRUE, !.base = base]

\* registry[Container] = Registration(Container, lambda: n, singleton) on the
\* copy, and _update_localns(Container, localns).
install_self_missing(reg, n) == reg
install_self(reg, n) ==
    DictSet(reg, Registration(Container, SelfFactory(n), "singleton", <<>>))

\* The containers once container `base` has a derived one with registry reg
\* and symbol table lns, which are copies.
DerivedShared(conts, base, reg, lns) ==
    Append([conts EXCEPT ![base].registry = reg, ![base].localns = lns],
           TestContainer(reg, lns, base))
Derived(conts, base, reg, lns) == Append(conts, TestContainer(reg, lns, base))

\* Container.create_test_container
CreateTestContainer(c) ==
    LET n == Len(containers) + 1
        reg == install_self(deepcopy(containers[c].registry), n)
        lns == update_localns(Container, containers[c].localns)
    IN  /\ c \in 1..Len(containers)
        /\ Len(containers) < MaxContainers
        /\ containers' = Derived(containers, c, reg, lns)
        /\ last' = Returned("create_test_container", c, None, ContainerValue(n))
        /\ UNCHANGED <<registry, localns, heap, stack, ncalls>>

\* TestContainer.with_overridden: what it raises, if anything.
override_error(c, cls, factory, kwargs) ==
    IF cls \notin Keys(containers[c].registry)
    THEN Error("ContainerError", "no_registration", cls, None)
    ELSE validate_registration(cls, factory, kwargs)

\* TestContainer.with_overridden
WithOverridden(c, cls, factory, scope, kwargs) ==
    LET n == Len(containers) + 1
        err == override_error(c, cls, factory, kwargs)
        reg == install_self(DictSet(deepcopy(containers[c].registry),
                                    Registration(cls, factory, scope, kwargs)), n)
        lns == update_localns(Container, update_localns(cls, containers[c].localns))
    IN  /\ c \in 1..Len(containers)
        /\ containers[c].test
        /\ err.kind = None => Len(containers) < MaxContainers
        /\ IF err.kind = None
           THEN /\ containers' = Derived(containers, c, reg, lns)
                /\ last' = Returned("with_overridden", c, cls, ContainerValue(n))
           ELSE /\ UNCHANGED containers
                /\ last' = Raised("with_overridden", c, cls, err.exc, err.kind, err.cls, err.parent)
        /\ UNCHANGED <<registry, localns, heap, stack, ncalls>>

\* ------------------------------------------------------------ the inputs
Input(cls, factory, scope, kwargs) ==
    [cls |-> cls, factory |-> factory, scope |-> scope, kwargs |-> kwargs]

F0 == Factory(<<>>)
F1(x) == Factory(<<Param("a", x)>>)
F2(x, y) == Factory(<<Param("a", x), Param("b", y)>>)

\* Calls to register() that fail whatever the builder holds.
BadInputs ==
    {Input(Generic, F0, "transient", <<>>),
     Input("B", NonCallable, "transient", <<>>),
     Input("B", F1("C"), "transient", <<Const("z")>>)}

\* The calls to register() of Spec: leaves, chains, a diamond, a class that
\* shares its name with another, in the scopes the resolver tells apart.
RegInputs ==
    {Input("C", F0, sc, <<>>) : sc \in {"transient", "cached"}}
    \cup {Input("B", F1("C"), sc, <<>>) : sc \in {"transient", "singleton"}}
    \cup {Input("B", F2("A1", "A1"), "transient", <<>>)}
    \cup {Input("A1", F0, sc, <<>>) : sc \in Scopes}
    \cup {Input("A1", F2("B", "C"), "transient", <<>>)}
    \cup {Input("A2", F0, sc, <<>>) : sc \in {"transient", "singleton"}}
    \cup BadInputs

\* The calls to register() of SpecB: every shape of dependency list over the
\* classes, with constants and Dependency markers in kwargs.  The validator
\* never reads the scope.
BuildTypes == {"A1", "A2", "B", "C"}
BuildInputs ==
    {Input(cls, F0, "transient", <<>>) : cls \in BuildTypes}
    \cup {Input(cls, F1(x), "transient", <<>>) : cls \in BuildTypes, x \in {"A1", "B", "C"}}
    \cup {Input(cls, F2("B", "C"), "transient", <<>>) : cls \in {"A1", "A2"}}
    \cup {Input("A1", F2("B", "C"), "transient", <<Const("b")>>),
          Input("B", F1("C"), "transient", <<Dependency("a", "sA")>>),
          Input("B", F1(Container), "transient", <<>>)}
    \cup BadInputs

\* One thread: a public call starts when the one before it has ended.
Idle == \A t \in Threads : stack[t] = <<>>

\* The builder is configured, then built, then the container is used.
Configuring == containers = <<>>

Next ==
    \/ Idle /\ Configuring /\ \E r \in RegInputs : Register(r.cls, r.factory, r.scope, r.kwargs)
    \/ Idle /\ Configuring /\ Build
    \/ \E c \in 1..Len(containers), cls \in ObjTypes : Resolve(Main, c, cls)
    \/ ResolveDep(Main)
    \/ FactoryReturns(Main)
    \/ FactoryRaises(Main)

Spec == Init /\ [][Next]_vars

NextB ==
    \/ Configuring /\ \E r \in BuildInputs : Register(r.cls, r.factory, r.scope, r.kwargs)
    \/ Configuring /\ Build

SpecB == Init /\ [][NextB]_vars

\* The calls to register() of SpecK: parameters bound to constants and to
\* Dependency markers on a class and on a string, and a factory that calls
\* resolve() on the container while a cached instance of the call exists.
KwargInputs ==
    {Input("C", F0, sc, <<>>) : sc \in {"transient", "cached"}}
    \cup {Input("A1", F0, "transient", <<>>),
          Input("A1", F2("B", "C"), "transient", <<>>),
          Input("A1", F2("B", "A2"), "transient", <<Const("b")>>),
          Input("B", F2("A2", "C"), "transient", <<Dependency("a", "C")>>),
          Input("B", F2("A2", "A2"), "transient", <<Const("a"), Dependency("b", "sA")>>),
          Input("B", Reentrant(<<Param("a", Container)>>, "C"), "transient", <<>>)}

NextK ==
    \/ Configuring /\ \E r \in KwargInputs : Register(r.cls, r.factory, r.scope, r.kwargs)
    \/ Configuring /\ Build
    \/ \E c \in 1..Len(containers), cls \in {"A1", "B", "C"} : Resolve(Main, c, cls)
    \/ ResolveDep(Main)
    \/ FactoryCalls(Main)
    \/ FactoryReturns(Main)

SpecK == Init /\ [][NextK]_vars

\* The calls to register() of SpecT: a leaf in the two scopes that keep an
\* instance, a dependent of it and a dependent of both.
ThreadInputs ==
    {Input("C", F0, sc, <<>>) : sc \in {"cached", "singleton"}}
    \cup {Input("B", F1("C"), "transient", <<>>),
          Input("A1", F2("B", "C"), "transient", <<>>)}

\* Two threads call resolve() on the container with no lock between them;
\* the steps of a call interleave with those of the other between the
\* lookups of resolve_impl, the return of a factory and the next lookups.
NextT ==
    \/ Configuring /\ \E r \in ThreadInputs : Register(r.cls, r.factory, r.scope, r.kwargs)
    \/ Configuring /\ Build
    \/ \E t \in Threads, c \in 1..Len(containers), cls \in {"A1", "B", "C"} :
           Resolve(t, c, cls)
    \/ \E t \in Threads : ResolveDep(t)
    \/ \E t \in Threads : FactoryReturns(t)

SpecT == Init /\ [][NextT]_vars

\* The calls to register() of SpecD: a singleton leaf, and a type that is
\* handed the container twice, once for a parameter declared on the container
\* type and once for a marker on the string that spells its name.
DerivedInputs ==
    {Input("C", F0, "singleton", <<>>),
     Input("A1", F2(Container, "C"), "transient", <<Dependency("b", ContainerName)>>)}

\* The calls to with_overridden() of SpecD: an override that depends on an
\* unregistered class, one that depends on its own type, one of the
\* container type, and the calls with_overridden() rejects.
Overrides ==
    {Input("C", F1("A2"), "transient", <<>>),
     Input("C", F1("C"), "transient", <<>>),
     Input(Container, F0, "transient", <<>>),
     Input("A2", F0, "transient", <<>>),
     Input("C", F0, "transient", <<Const("z")>>)}

DerivedTypes == {"A1", "C", Container, ContainerName}

\* A builder that goes on registering and building while its containers and
\* the test containers derived from them are in use.
NextD ==
    \/ Idle /\ \E r \in DerivedInputs : Register(r.cls, r.factory, r.scope, r.kwargs)
    \/ Idle /\ Len(containers) < MaxContainers /\ Build
    \/ Idle /\ \E c \in 1..Len(containers) : CreateTestContainer(c)
    \/ Idle /\ \E c \in 1..Len(containers), o \in Overrides :
                  WithOverridden(c, o.cls, o.factory, o.scope, o.kwargs)
    \/ \E c \in 1..Len(containers), cls \in DerivedTypes : Resolve(Main, c, cls)
    \/ ResolveDep(Main)
    \/ FactoryReturns(Main)

SpecD == Init /\ [][NextD]_vars

\* ------------------------------------------------------ dependency graph
\* The dependency relation the claims speak of, computed apart from the
\* validator: the identities a registration depends on directly, and the
\* identities reached from a set of them through the registrations.
DepTargets(r, lns) ==
    {get_from_localns(get_deps(r)[i].cls, lns) : i \in 1..Len(get_deps(r))}

Successors(S, reg, lns) ==
    UNION {IF x \in Keys(reg) THEN DepTargets(Lookup(reg, x), lns) ELSE {} : x \in S}

RECURSIVE Closure(_, _, _)
Closure(S, reg, lns) ==
    IF Successors(S, reg, lns) \subseteq S THEN S
    ELSE Closure(S \cup Successors(S, reg, lns), reg, lns)

\* The identities registration r depends on, directly or not.
DependsOn(r, reg, lns) == Closure(DepTargets(r, lns), reg, lns)

\* Every registration has all it depends on registered and none depends on
\* itself.
GraphValid(reg, lns) ==
    \A i \in 1..Len(reg) :
        /\ DependsOn(reg[i], reg, lns) \subseteq Keys(reg)
        /\ reg[i].key \notin DependsOn(reg[i], reg, lns)

\* The registry and symbol table the latest build() validated.
BuildEnded == last.op = "build"

\* ----------------------------------------------------------------- claims
\* C1: build() returns a container if and only if every registration the
\* builder holds has its whole transitive dependency set registered and no
\* registered identity depends on itself.
C1_BuildIffGraphValid ==
    BuildEnded =>
        (last.exc = None <=> GraphValid(built_registry(1), built_localns))

C9_MissingErrorNamesBoth ==
    (BuildEnded /\ last.kind = "missing") =>
        /\ last.cls \notin Keys(built_registry(1))
        /\ last.parent \in Keys(built_registry(1))
        /\ \E i \in 1..Len(get_deps(Lookup(built_registry(1), last.parent))) :
               get_deps(Lookup(built_registry(1), last.parent))[i].cls = last.cls

\* A missing dependency found below the registration the walk started from.
C9_Witness ==
    /\ BuildEnded /\ last.kind = "missing"
    /\ Len(registry) >= 2
    /\ last.parent # registry[1].key
    /\ last.parent \in DependsOn(registry[1], built_registry(1), built_localns)

\* C10: register() raises when the identity is already registered or a name
\* of kwargs is no parameter of the factory, and a register() that raises
\* leaves the registry and the symbol table as they were; one that returns
\* appends its registration.
C10_RegisterStep ==
    (last'.op = "register" /\ (last' # last \/ registry' # registry)) =>
        IF last'.exc # None
        THEN registry' = registry /\ localns' = localns
        ELSE /\ last'.arg \notin Keys(registry)
             /\ Len(registry') = Len(registry) + 1
             /\ SubSeq(registry', 1, Len(registry)) = registry
             /\ LET r == registry'[Len(registry')]
                IN  /\ r.key = last'.arg
                    /\ \A i \in 1..Len(r.kwargs) :
                           \E j \in 1..Len(r.factory.params) :
                               r.factory.params[j].key = r.kwargs[i].key

C10_RegisterFailsCleanly == [][C10_RegisterStep]_vars

\* A second registration of the first identity has been rejected by a
\* builder that has taken another registration since.
C10_Witness ==
    /\ last.op = "register"
    /\ last.kind = "duplicate"
    /\ Len(registry) >= 2
    /\ last.arg = registry[1].key

\* ------------------------------------------------- claims on the resolver
\* The objects of the heap, the registrations of container c by scope, and
\* the identity a parameter of the factory that built object n was declared
\* to receive.
Objects == 1..Len(heap)
Scoped(c, scope) ==
    {containers[c].registry[i] : i \in {j \in 1..Len(containers[c].registry) :
        containers[c].registry[j].scope = scope /\ containers[c].registry[j].key # Container}}
BuiltBy(c, cls) == {n \in Objects : heap[n].c = c /\ heap[n].by = cls}
DepsOfObject(n) == get_deps(Lookup(containers[heap[n].c].registry, heap[n].by))

\* <<n, i>>: argument i of object n of container c was resolved for a
\* dependency declared on identity cls.
Requests(c, cls) ==
    {p \in Objects \X (1..2) :
        /\ heap[p[1]].c = c
        /\ p[2] <= Len(heap[p[1]].args)
        /\ \E d \in 1..Len(DepsOfObject(p[1])) :
               /\ DepsOfObject(p[1])[d].key = heap[p[1]].args[p[2]].key
               /\ DepsOfObject(p[1])[d].cls = cls}
Received(p) == heap[p[1]].args[p[2]].value

\* resolve(cls) on container c was the latest call and has returned.
ResolveReturned(c, cls) ==
    Idle /\ last.op = "resolve" /\ last.exc = None /\ last.c = c /\ last.arg = cls

\* C2: after a build() that succeeded, resolve(T) of a registered T raises no
\* missing-dependency error, and no identity is entered twice on one call
\* path, so the recursion is bounded by the number of registrations.
C2_ResolveNeverMissing ==
    /\ (last.op = "resolve" /\ last.kind = "missing") =>
           last.arg \notin Keys(containers[last.c].registry)
    /\ \A t \in Threads : \A i, j \in 1..Len(stack[t]) :
           (i < j /\ stack[t][i].kind = "impl" /\ stack[t][j].kind = "impl")
               => stack[t][i].cls # stack[t][j].cls

\* The second resolve() has returned an object built from two dependencies.
C2_Witness ==
    /\ last.op = "resolve" /\ last.exc = None
    /\ ncalls = 2
    /\ last.value.tag = "inst"
    /\ Len(heap[last.value.id].args) = 2

\* C3: the factory of a singleton-scoped type is invoked at most once, and
\* every resolution of the type, top-level or nested, returns the instance of
\* the singleton store.
C3_SingletonSameInstance ==
    \A c \in 1..Len(containers) : \A r \in Scoped(c, "singleton") :
        /\ Cardinality(BuiltBy(c, r.cls)) <= 1
        /\ ResolveReturned(c, r.cls) =>
               /\ r.cls \in DOMAIN containers[c].resolved
               /\ last.value = containers[c].resolved[r.cls]
        /\ \A p \in Requests(c, r.cls) :
               /\ r.cls \in DOMAIN containers[c].resolved
               /\ Received(p) = containers[c].resolved[r.cls]

\* C4: every resolution of a transient-scoped type, top-level or nested,
\* returns an object its factory built for this resolution alone, and the
\* object is in neither the singleton store nor the cache.
C4_TransientAlwaysNew ==
    \A c \in 1..Len(containers) : \A r \in Scoped(c, "transient") :
        /\ ResolveReturned(c, r.cls) =>
               /\ last.value.tag = "inst"
               /\ last.value.id \in BuiltBy(c, r.cls)
               /\ heap[last.value.id].call = ncalls
        /\ \A p \in Requests(c, r.cls) :
               /\ Received(p).tag = "inst"
               /\ Received(p).id \in BuiltBy(c, r.cls)
               /\ heap[Received(p).id].call = heap[p[1]].call
               /\ \A cls \in ObjTypes : \A q \in Requests(c, cls) :
                      q # p => Received(q) # Received(p)
        /\ \A n \in BuiltBy(c, r.cls) :
               /\ \A k \in DOMAIN containers[c].resolved :
                      containers[c].resolved[k] # Instance(n)
               /\ \A k \in DOMAIN containers[c].cache :
                      containers[c].cache[k] # Instance(n)

\* C5: within one top-level resolve() the factory of a cached-scoped type is
\* invoked at most once and every dependent of the call receives that one
\* instance.
C5_CachedOncePerCall ==
    \A c \in 1..Len(containers) : \A r \in Scoped(c, "cached") :
        /\ \A n, m \in BuiltBy(c, r.cls) : heap[n].call = heap[m].call => n = m
        /\ \A p, q \in Requests(c, r.cls) :
               heap[p[1]].call = heap[q[1]].call => Received(p) = Received(q)

\* The objects held, directly or not, by the objects of S.
HeldBy(S) ==
    {heap[n].args[i].value.id :
        <<n, i>> \in {p \in S \X (1..2) : /\ p[2] <= Len(heap[p[1]].args)
                                          /\ heap[p[1]].args[p[2]].value.tag = "inst"}}
RECURSIVE Graph(_)
Graph(S) == IF HeldBy(S) \subseteq S THEN S ELSE Graph(S \cup HeldBy(S))

\* C6: every object of the graph a resolve() call returns that holds an
\* instance of a cached-scoped type holds the same one.
C6_GraphSharesCached ==
    \A c \in 1..Len(containers) : \A r \in Scoped(c, "cached") :
        (last.op = "resolve" /\ last.exc = None /\ last.c = c /\ last.value.tag = "inst")
            => Cardinality(HeldBy(Graph({last.value.id})) \cap BuiltBy(c, r.cls)) <= 1

\* C7: whenever no resolve() is in progress the per-call cache is empty, and
\* a cached-scoped type resolved in a new call is an object built in that
\* call.
C7_CacheEmptyBetweenCalls ==
    \A c \in 1..Len(containers) :
        Idle =>
            /\ containers[c].cache = Empty
            /\ \A r \in Scoped(c, "cached") :
                   ResolveReturned(c, r.cls) =>
                       /\ last.value.tag = "inst"
                       /\ heap[last.value.id].call = ncalls

\* ------------------------------------------------------ claims C11 to C20
\* The errors the container itself reports, as opposed to an exception of a
\* factory or of the interpreter.
ReportedKinds ==
    {"duplicate", "no_argument", "generic", "not_callable", "missing", "cycle",
     "no_registration"}

\* C11: every error register(), build(), resolve() and with_overridden()
\* report (duplicate registration, invalid fixed argument, unbound type
\* parameter, non-callable factory, missing dependency, cyclic dependency,
\* invalid override target) is a ContainerError.
C11_AllErrorsContainerError ==
    last.kind \in ReportedKinds => last.exc = "ContainerError"

\* C12: once build() has returned container c, no later register(), build(),
\* resolve(), create_test_container() or with_overridden() changes the
\* registry or the symbol table of c, and the singleton store of c is written
\* only by a resolve() call on c itself, never by one on a derived container.
C12_FrozenStep ==
    \A c \in 1..Len(containers) :
        /\ c <= Len(containers')
        /\ containers'[c].registry = containers[c].registry
        /\ containers'[c].localns = containers[c].localns
        /\ containers'[c].resolved # containers[c].resolved =>
               \E t \in Threads : stack[t] # <<>> /\ Top(stack[t]).c = c

C12_BuiltContainerFrozen == [][C12_FrozenStep]_vars

\* The builder has registered a type since it built container 1, a test
\* container of container 1 has a derived container that overrides C, and a
\* resolve() on that one has filled its singleton store while the store of
\* container 1 is still empty.
C12_Witness ==
    /\ Len(containers) = 3
    /\ containers[1].base = 0 /\ containers[2].base = 1 /\ containers[3].base = 2
    /\ ~(Keys(registry) \subseteq Keys(containers[1].registry))
    /\ "C" \in Keys(containers[1].registry)
    /\ Lookup(containers[3].registry, "C") # Lookup(containers[1].registry, "C")
    /\ containers[3].resolved # Empty
    /\ containers[1].resolved = Empty

\* The type reference cls names the container type on container c.
IsContainerRef(c, cls) == get_from_localns(cls, containers[c].localns) = Container

\* C13: on every container, built or derived, a resolve() of the container
\* type returns that container, every parameter resolved for the container
\* type receives the container the object was built on, and the singleton
\* store holds nothing else for the container type.
C13_ContainerInjectsItself ==
    /\ (last.op = "resolve" /\ last.exc = None /\ IsContainerRef(last.c, last.arg))
           => last.value = ContainerValue(last.c)
    /\ \A c \in 1..Len(containers) :
           /\ \A cls \in ObjTypes \cup {ContainerName} :
                  IsContainerRef(c, cls) =>
                      \A p \in Requests(c, cls) : Received(p) = ContainerValue(c)
           /\ Container \in DOMAIN containers[c].resolved =>
                  containers[c].resolved[Container] = ContainerValue(c)

\* An object built on a container derived from a test container holds that
\* container twice, and the container the builder built has returned itself
\* afterwards.
C13_Witness ==
    /\ \E n \in Objects :
           /\ containers[heap[n].c].base # 0
           /\ containers[containers[heap[n].c].base].base # 0
           /\ Len(heap[n].args) = 2
           /\ \A i \in 1..2 : heap[n].args[i].value = ContainerValue(heap[n].c)
    /\ last.op = "resolve" /\ last.exc = None
    /\ last.c = 1 /\ last.value = ContainerValue(1)
    /\ ncalls = 2

\* C20: on every container, derived ones included, resolve(T) of a T that
\* is registered in it ends without a missing-dependency error and without
\* exhausting the recursion depth.
C20_DerivedResolveSafe ==
    (last.op = "resolve" /\ last.kind \in {"missing", "recursion"}) =>
        last.arg \notin Keys(containers[last.c].registry)

\* The trace of the validator over the registry the latest build() was given.
ValidatorLog == check_resolvable(built_registry(1), built_localns).log

\* Entry i of the trace is a call that goes on to expand the dependency list
\* of its identity.
Expands(log, i) ==
    /\ log[i].ev = "call"
    /\ log[i].cls \notin log[i].resolved
    /\ log[i].cls \notin log[i].resolving
    /\ log[i].cls \in Keys(built_registry(1))

\* The call that expanded identity cls most recently before entry i.
Expansion(log, i, cls) ==
    CHOOSE j \in 1..(i - 1) :
        /\ Expands(log, j) /\ log[j].cls = cls
        /\ \A k \in (j + 1)..(i - 1) : ~(Expands(log, k) /\ log[k].cls = cls)

\* C18: during one build() `resolved` and `resolving` stay disjoint,
\* `resolved` only grows, `resolving` is the path of calls from the outer loop
\* to the current one and is empty when a traversal started by the outer loop
\* returns, and the dependency list of an identity is expanded at most once.
C18_ValidatorSets ==
    BuildEnded =>
        LET log == ValidatorLog
        IN  /\ \A i \in 1..Len(log) : log[i].resolved \cap log[i].resolving = {}
            /\ \A i, j \in 1..Len(log) : i < j => log[i].resolved \subseteq log[j].resolved
            /\ \A i \in 1..Len(log) :
                   log[i].ev = "call" =>
                       IF log[i].parent = None
                       THEN log[i].resolving = {}
                       ELSE log[i].resolving =
                                log[Expansion(log, i, log[i].parent)].resolving
                                    \cup {log[i].parent}
            /\ \A i \in 1..Len(log) :
                   log[i].ev = "done" =>
                       /\ log[i].cls \in log[i].resolved
                       /\ log[i].resolving = log[Expansion(log, i, log[i].cls)].resolving
                       /\ log[i].parent = None => log[i].resolving = {}
            /\ \A i, j \in 1..Len(log) :
                   (Expands(log, i) /\ Expands(log, j) /\ log[i].cls = log[j].cls) => i = j

\* A build() that succeeded on three registrations met, below another
\* identity, an identity it had already moved to `resolved`, and met one in
\* the outer loop too.
C18_Witness ==
    /\ BuildEnded /\ last.exc = None
    /\ Len(registry) = 3
    /\ \E i \in 1..Len(ValidatorLog) :
           /\ ValidatorLog[i].ev = "call"
           /\ ValidatorLog[i].parent # None
           /\ ValidatorLog[i].cls \in ValidatorLog[i].resolved
    /\ \E i \in 1..Len(ValidatorLog) :
           /\ ValidatorLog[i].ev = "call"
           /\ ValidatorLog[i].parent = None
           /\ ValidatorLog[i].cls \in ValidatorLog[i].resolved

\* What registration r binds parameter p to: the entry of kwargs for it, if
\* any, and the identity to resolve for it otherwise.
Binding(r, p) == {r.kwargs[i] : i \in {j \in 1..Len(r.kwargs) : r.kwargs[j].key = p.key}}
IsConstant(r, p) == \E k \in Binding(r, p) : k.tag = "const"
Target(r, p) ==
    IF \E k \in Binding(r, p) : k.tag = "dep"
    THEN (CHOOSE k \in Binding(r, p) : k.tag = "dep").cls
    ELSE p.cls
Params(r) == {r.factory.params[i] : i \in 1..Len(r.factory.params)}

\* Value v is what resolving identity d on container c yields: the container
\* for the container type, else an object of the registration d stands for.
ResultOfResolving(c, d, v) ==
    LET k == get_from_localns(d, containers[c].localns)
    IN  IF k = Container
        THEN v = ContainerValue(c)
        ELSE v.tag = "inst" /\ heap[v.id].c = c /\ heap[v.id].by = k

\* C14: every object is built with one argument per declared parameter of its
\* factory: the constant of kwargs unchanged for a parameter bound to a
\* constant, the result of resolving the marker's target for one bound to a
\* Dependency marker, the result of resolving the declared type otherwise;
\* and the identities the validator visits below a registration are the
\* targets of exactly the parameters that are not bound to a constant.
C14_ResolverFollowsBindings ==
    /\ \A n \in Objects :
           LET c == heap[n].c
               r == Lookup(containers[c].registry, heap[n].by)
               args == heap[n].args
           IN  /\ Len(args) = Len(r.factory.params)
               /\ \A p \in Params(r) :
                      \E i \in 1..Len(args) :
                          /\ args[i].key = p.key
                          /\ IF IsConstant(r, p)
                             THEN \E k \in Binding(r, p) : args[i].value = ConstOf(k)
                             ELSE ResultOfResolving(c, Target(r, p), args[i].value)
    /\ \A c \in 1..Len(containers) :
           LET reg == containers[c].registry
               log == check_resolvable(reg, containers[c].localns).log
           IN  \A i \in 1..Len(log) :
                   (/\ log[i].ev = "call"
                    /\ log[i].cls \notin log[i].resolved
                    /\ log[i].cls \in Keys(reg))
                   => {log[j].raw : j \in {x \in 1..Len(log) :
                                              log[x].ev = "call" /\ log[x].parent = log[i].cls}}
                      = {Target(Lookup(reg, log[i].cls), p) :
                            p \in {q \in Params(Lookup(reg, log[i].cls)) :
                                      ~IsConstant(Lookup(reg, log[i].cls), q)}}

\* resolve(A1) has returned an object built with a constant for a parameter
\* whose declared type is not registered and with an object of B, and that
\* object of B was built with an instance of C for a parameter declared on
\* another type.
C14_Witness ==
    /\ last.op = "resolve" /\ last.exc = None /\ last.arg = "A1"
    /\ last.value.tag = "inst"
    /\ \E i, j \in 1..Len(heap[last.value.id].args) :
           LET args == heap[last.value.id].args
           IN  /\ args[i].value.tag = "const"
               /\ args[j].value.tag = "inst"
               /\ heap[args[j].value.id].by = "B"
               /\ \E k \in 1..Len(heap[args[j].value.id].args) :
                      LET a == heap[args[j].value.id].args[k]
                      IN  /\ a.key = "a"
                          /\ a.value.tag = "inst"
                          /\ heap[a.value.id].by = "C"

\* C15: while a top-level resolve() is in progress nothing clears the cache:
\* every instance of a cached-scoped type built so far in the call is still
\* the cache's entry for that type.
C15_CacheKeptDuringCall ==
    \A t \in Threads :
        stack[t] # <<>> =>
            \A n \in Objects :
                (/\ heap[n].call = stack[t][1].call
                 /\ \E r \in Scoped(heap[n].c, "cached") : r.cls = heap[n].by)
                => /\ heap[n].by \in DOMAIN containers[heap[n].c].cache
                   /\ containers[heap[n].c].cache[heap[n].by] = Instance(n)

\* C19: resolve(T) of a registered T returns an object built by the factory
\* of T's own registration (the container itself for the container type),
\* and a build() that succeeds has expanded the registration of every
\* registered identity.
C19_NoAliasing ==
    /\ (/\ last.op = "resolve" /\ last.exc = None
        /\ last.arg \in Keys(containers[last.c].registry))
       => IF last.arg = Container
          THEN last.value = ContainerValue(last.c)
          ELSE last.value.tag = "inst" /\ heap[last.value.id].by = last.arg
    /\ (BuildEnded /\ last.exc = None) =>
           \A k \in Keys(built_registry(1)) :
               \E i \in 1..Len(ValidatorLog) :
                   Expands(ValidatorLog, i) /\ ValidatorLog[i].cls = k

\* C16: the cache is one per container and shared by the calls in progress:
\* the step in which a top-level resolve() returns leaves the cache of its
\* container empty whatever the calls of other threads have put in it.
C16_SharedCacheStep ==
    \A t \in Threads :
        (stack[t] # <<>> /\ stack'[t] = <<>> /\ last'.exc = None)
            => containers'[stack[t][1].c].cache = Empty

C16_CompletionClearsSharedCache == [][C16_SharedCacheStep]_vars

\* An object built in one call holds an instance of a cached-scoped type
\* that another call built, and one call has built two instances of a
\* cached-scoped type.
C16_Witness ==
    \E c \in 1..Len(containers) : \E r \in Scoped(c, "cached") :
        /\ \E p \in Requests(c, r.cls) :
               /\ Received(p).tag = "inst"
               /\ heap[Received(p).id].call # heap[p[1]].call
        /\ \E n, m \in BuiltBy(c, r.cls) : n # m /\ heap[n].call = heap[m].call

\* C17: an entry of the singleton store is replaced only by an instance of
\* the same type built in another top-level call than the one that built the
\* replaced instance, and is never removed: a call that finds no entry builds
\* and writes one without looking again.
C17_StoreStep ==
    \A c \in 1..Len(containers) : \A k \in DOMAIN containers[c].resolved :
        /\ k \in DOMAIN containers'[c].resolved
        /\ (containers'[c].resolved[k] # containers[c].resolved[k]
            /\ containers[c].resolved[k].tag = "inst") =>
               /\ containers'[c].resolved[k].tag = "inst"
               /\ heap'[containers'[c].resolved[k].id].by = k
               /\ heap'[containers'[c].resolved[k].id].call
                      # heap[containers[c].resolved[k].id].call

C17_SingletonWriteNotAtomic == [][C17_StoreStep]_vars

\* Two calls have each built and returned an instance of a singleton-scoped
\* type that has no dependencies, and the store holds the later one.
C17_Witness ==
    /\ Idle /\ ncalls = 2
    /\ last.op = "resolve" /\ last.exc = None
    /\ \E c \in 1..Len(containers) : \E r \in Scoped(c, "singleton") :
           /\ Len(heap) = 2
           /\ BuiltBy(c, r.cls) = {1, 2}
           /\ heap[1].call # heap[2].call
           /\ last.value = Instance(2)
           /\ containers[c].resolved[r.cls] = Instance(2)

====
